---------------------------- MODULE Spec2Model ----------------------------
(* Helfy authentication API (api/src/index.js) over its relational store.   *)
(* State: the users and user_tokens tables, the clock, the start() sequence *)
(* of the process, and every request handler that is suspended at an await. *)
(* One action per stretch of handler code between two awaits; the store     *)
(* executes each query atomically.                                          *)
EXTENDS Integers, Sequences, FiniteSets, TLC

VARIABLES users, tokens, now, ticks, issued, logins, phase, attempt,
          dbConnected, adminFound, exitCode, inflight, resp, loggedOut,
          granted

\* the CDC consumer process (cdc-consumer/src/index.js): where main() is,
\* the failed passes of waitForKafka, the exit code, the messages handed to
\* eachMessage, the lines written by cdcLogger and by logger.error
VARIABLES kPhase, kAttempt, kExit, consumed, cdcLog, errors

api == <<users, tokens, now, ticks, issued, logins, phase, attempt,
         dbConnected, adminFound, exitCode, inflight, resp, loggedOut,
         granted>>

consumer == <<kPhase, kAttempt, kExit, consumed, cdcLog, errors>>

vars == <<api, consumer>>

(* ------------------------------ bounds --------------------------------- *)
\* number of handlers that may be suspended at an await at the same time
MaxInflight == 2
\* number of logins that get as far as their password check in one behaviour
MaxLogins == 2
\* number of times the clock advances in one behaviour
MaxTicks == 2

Req == 1..MaxInflight

(* --------------------------- program constants -------------------------- *)
DbAttempts == 30
MinPasswordLength == 6
TokenLifetimeMs == 24 * 60 * 60 * 1000
AdminEmail == "admin@helfy.com"
AdminUsername == "admin"
AdminPassword == "admin123"
\* a header that carries no token (falsy in `if (!token)`)
NoToken == 0

(* ----------------------------- input domains ---------------------------- *)
\* a body field that is missing (undefined or "": falsy in `!email`)
Absent == ""
\* the handlers do not validate the format of email or username, so any
\* string may arrive in either field
Idents == {"a@x.com", "bob"}
\* lengths 6, 8 and 5
Passwords == {"secret", "admin123", "abcde"}
\* how far the clock moves between two steps
TickSteps == {1, TokenLifetimeMs - 1}

(* ------------------------------- bcrypt --------------------------------- *)
\* a salted one-way hash: the record stands for the hash string, from which
\* the password cannot be read back but against which it can be compared
bcryptHash(pw) == [alg |-> "bcrypt", cost |-> 10, of |-> pw]
bcryptCompare(pw, hash) == hash.alg = "bcrypt" /\ hash.of = pw
\* the hash db/seed.sql inserts for the admin row; ensureAdminUser replaces
\* it "to ensure it works"
SeedHash == [alg |-> "bcrypt", cost |-> 10, of |-> "seed"]

(* ------------------------------ the store ------------------------------- *)
UserRow(id, email, username, hash) ==
    [id |-> id, email |-> email, username |-> username, password_hash |-> hash]

\* SelectUsers that forgets the username
SelectUsersEmailOnly(email, username) ==
    {i \in DOMAIN users : users[i].email = email}

\* SELECT ... FROM users WHERE email = ? OR username = ?
SelectUsers(email, username) ==
    {i \in DOMAIN users : users[i].email = email \/ users[i].username = username}

\* SELECT id FROM users WHERE email = ?
SelectUsersByEmail(email) == {i \in DOMAIN users : users[i].email = email}

\* unique keys on users.email and users.username
DuplicateKey(email, username) ==
    \E i \in DOMAIN users : users[i].email = email \/ users[i].username = username

\* INSERT INTO users (email, username, password_hash): insertId is the next id
InsertUser(email, username, hash) ==
    Append(users, UserRow(Len(users) + 1, email, username, hash))

\* UPDATE users SET password_hash = ? WHERE email = ?
UpdateHash(email, hash) ==
    [i \in DOMAIN users |->
        IF users[i].email = email
        THEN [users[i] EXCEPT !.password_hash = hash]
        ELSE users[i]]

\* new Date(Date.now() + 24h)
ExpiresAt(t) == t + TokenLifetimeMs

\* SelectValidToken whose WHERE clause lost t.token = ?
SelectValidTokenAny(token) ==
    {row \in tokens : /\ row.expires_at > now
                      /\ row.user_id \in DOMAIN users}

\* SelectValidToken with t.expires_at >= NOW()
SelectValidTokenInclusive(token) ==
    {row \in tokens : /\ row.token = token
                      /\ row.expires_at >= now
                      /\ row.user_id \in DOMAIN users}

\* SELECT t.*, u.id, u.email, u.username FROM user_tokens t JOIN users u
\* ON t.user_id = u.id WHERE t.token = ? AND t.expires_at > NOW()
SelectValidToken(token) ==
    {row \in tokens : /\ row.token = token
                      /\ row.expires_at > now
                      /\ row.user_id \in DOMAIN users}

\* DeleteToken that removes every token of the token's user
DeleteTokenOfUser(token) ==
    {row \in tokens : \A t \in tokens :
        t.token = token => row.user_id # t.user_id}

\* DeleteToken that removes no row
DeleteTokenNothing(token) == tokens

\* DELETE FROM user_tokens WHERE token = ?
DeleteToken(token) == {row \in tokens : row.token # token}

\* uuidv4(): a value never handed out before
uuidv4 == issued + 1

(* ------------------------------ responses ------------------------------- *)
None == [op |-> "none"]
Idle == [pc |-> "idle"]

(* ------------------------------- Init ----------------------------------- *)
\* the store start() finds: empty, seeded by db/seed.sql, or holding the admin
\* row an earlier run of ensureAdminUser left
InitialUsers ==
    { <<>>,
      <<UserRow(1, AdminEmail, AdminUsername, SeedHash)>>,
      <<UserRow(1, AdminEmail, AdminUsername, bcryptHash(AdminPassword))>> }

Init ==
    /\ users \in InitialUsers
    /\ tokens = {}
    /\ now = 0
    /\ ticks = 0
    /\ issued = 0
    /\ logins = 0
    /\ phase = "connecting"
    /\ attempt = 0
    /\ dbConnected = FALSE
    /\ adminFound = FALSE
    /\ exitCode = -1
    /\ inflight = [r \in Req |-> Idle]
    /\ resp = None
    /\ loggedOut = {}
    /\ granted = {}
    /\ kPhase = "waiting"
    /\ kAttempt = 0
    /\ kExit = -1
    /\ consumed = <<>>
    /\ cdcLog = <<>>
    /\ errors = <<>>

(* ------------------------------ start() --------------------------------- *)
\* ConnectAttempt whose loop condition is i <= 30
ConnectAttemptOneMore ==
    /\ phase = "connecting"
    /\ attempt <= DbAttempts
    /\ \E ok \in BOOLEAN :
          IF ok
          THEN /\ phase' = "ensure_admin"
               /\ attempt' = 0
               /\ dbConnected' = TRUE
          ELSE /\ phase' = phase
               /\ attempt' = attempt + 1
               /\ dbConnected' = dbConnected
    /\ UNCHANGED <<users, tokens, now, ticks, issued, logins, adminFound,
                   exitCode, inflight, resp, loggedOut,
                   granted, consumer>>

\* one pass of the loop of waitForDatabase: createConnection / USE / end
ConnectAttempt ==
    /\ phase = "connecting"
    /\ attempt < DbAttempts
    /\ \E ok \in BOOLEAN :
          IF ok
          THEN /\ phase' = "ensure_admin"
               /\ attempt' = 0  \* `i` ends with the call
               /\ dbConnected' = TRUE
          ELSE /\ phase' = phase
               /\ attempt' = attempt + 1
               /\ dbConnected' = dbConnected
    /\ UNCHANGED <<users, tokens, now, ticks, issued, logins, adminFound,
                   exitCode, inflight, resp, loggedOut,
                   granted, consumer>>

\* waitForDatabase that returns after its last failed attempt
WaitForDatabaseReturns ==
    /\ phase = "connecting"
    /\ attempt = DbAttempts
    /\ phase' = "ensure_admin"
    /\ UNCHANGED <<users, tokens, now, ticks, issued, logins, attempt,
                   dbConnected, adminFound, exitCode, inflight, resp,
                   loggedOut,
                   granted, consumer>>

\* the loop ran out: throw new Error('Database connection failed'). start()
\* rejects, nothing handles the rejection of `start();`, and the runtime ends
\* the process with exit code 1 before app.listen is reached.
WaitForDatabaseThrows ==
    /\ phase = "connecting"
    /\ attempt = DbAttempts
    /\ phase' = "exited"
    /\ exitCode' = 1
    /\ UNCHANGED <<users, tokens, now, ticks, issued, logins, attempt, dbConnected, adminFound,
                   inflight, resp, loggedOut,
                   granted, consumer>>

\* ensureAdminUser, first query: SELECT id FROM users WHERE email = admin
EnsureAdminSelect ==
    /\ phase = "ensure_admin"
    /\ adminFound' = (SelectUsersByEmail(AdminEmail) # {})
    /\ phase' = "ensure_admin_write"
    /\ UNCHANGED <<users, tokens, now, ticks, issued, logins, attempt, dbConnected, exitCode,
                   inflight, resp, loggedOut,
                   granted, consumer>>

\* ensureAdminUser, second query (INSERT when the select found nothing,
\* UPDATE otherwise), its catch, and then app.listen in start()
EnsureAdminWrite ==
    /\ phase = "ensure_admin_write"
    /\ IF adminFound
       THEN users' = UpdateHash(AdminEmail, bcryptHash(AdminPassword))
       ELSE IF DuplicateKey(AdminEmail, AdminUsername)
            THEN users' = users  \* the insert throws; the catch logs it
            ELSE users' = InsertUser(AdminEmail, AdminUsername,
                                     bcryptHash(AdminPassword))
    /\ phase' = "listening"
    /\ UNCHANGED <<tokens, now, ticks, issued, logins, attempt, dbConnected, adminFound, exitCode,
                   inflight, resp, loggedOut,
                   granted, consumer>>

\* a query of ensureAdminUser throws (store error): the catch logs the
\* message, ensureAdminUser returns normally and start() goes on to listen
EnsureAdminThrows ==
    /\ phase \in {"ensure_admin", "ensure_admin_write"}
    /\ phase' = "listening"
    /\ UNCHANGED <<users, tokens, now, ticks, issued, logins, attempt, dbConnected, adminFound,
                   exitCode, inflight, resp, loggedOut,
                   granted, consumer>>

(* --------------------------- request plumbing --------------------------- *)
\* the listener accepts a request only once app.listen ran; `resp` holds what
\* the last handler step produced until Deliver hands it to the client
Accepting == phase = "listening" /\ resp = None

\* a new suspended handler takes the lowest free place
FreeSlot(r) ==
    /\ inflight[r] = Idle
    /\ \A q \in Req : q < r => inflight[q] # Idle

Err(msg) == [error |-> msg]

\* logUserActivity(userId, action, ip, extra): the entry written to the
\* activity logger (timestamp and ip left out)
\* Activity that is logged without the id of the user
ActivityNoUser(userId, action) == [userId |-> 0, action |-> action]

Activity(userId, action) == [userId |-> userId, action |-> action]
NoActivity == [action |-> "none"]

\* res.status(code).json(body) of POST /api/auth/register
\* `taken` records whether a user row held the email or the username when the
\* request arrived
RegisterResponse(req, taken, status, body, queries, activity) ==
    [op |-> "register", status |-> status, body |-> body, req |-> req,
     taken |-> taken, queries |-> queries, activity |-> activity]

\* res.status(code).json(body) of POST /api/auth/login; `matched` and
\* `credOk` record what the users table held when the handler read it
LoginResponse(req, status, body, queries, activity, matched, credOk) ==
    [op |-> "login", status |-> status, body |-> body, req |-> req,
     queries |-> queries, activity |-> activity, matched |-> matched,
     credOk |-> credOk]

(* ------------------------ POST /api/auth/register ----------------------- *)
FieldsMissing(email, username, password) ==
    email = Absent \/ username = Absent \/ password = Absent

\* PasswordTooShort with the limit one too low
PasswordTooShortBelow5(password) == Len(password) < MinPasswordLength - 1

PasswordTooShort(password) == Len(password) < MinPasswordLength

\* validation, then the await of SELECT id FROM users WHERE email = ? OR
\* username = ?
RegisterCheck(email, username, password) ==
    /\ Accepting
    /\ LET req == [email |-> email, username |-> username,
                   password |-> password]
           taken == DuplicateKey(email, username)
       IN  IF FieldsMissing(email, username, password)
           THEN /\ resp' = RegisterResponse(req, taken, 400,
                              Err("All fields required"), <<>>, NoActivity)
                /\ inflight' = inflight
           ELSE IF PasswordTooShort(password)
           THEN /\ resp' = RegisterResponse(req, taken, 400,
                              Err("Password must be at least 6 characters"),
                              <<>>, NoActivity)
                /\ inflight' = inflight
           ELSE IF SelectUsers(email, username) # {}
           THEN /\ resp' = RegisterResponse(req, taken, 409,
                              Err("User already exists"),
                              <<"select_users">>, NoActivity)
                /\ inflight' = inflight
           ELSE /\ \E r \in Req :
                      /\ FreeSlot(r)
                      /\ inflight' = [inflight EXCEPT ![r] =
                            [pc |-> "reg_insert", req |-> req,
                             taken |-> taken]]
                /\ resp' = resp
    /\ UNCHANGED <<users, tokens, now, ticks, issued, logins, phase, attempt,
                   dbConnected, adminFound, exitCode, loggedOut,
                   granted, consumer>>

\* bcrypt.hash, then the await of INSERT INTO users; a duplicate key makes
\* the query throw, and the catch answers 500
RegisterInsertUser(r) ==
    /\ resp = None
    /\ inflight[r].pc = "reg_insert"
    /\ LET req == inflight[r].req
       IN  IF DuplicateKey(req.email, req.username)
           THEN /\ resp' = RegisterResponse(req, inflight[r].taken, 500,
                              Err("Registration failed"),
                              <<"select_users", "insert_user">>, NoActivity)
                /\ inflight' = [inflight EXCEPT ![r] = Idle]
                /\ users' = users
           ELSE /\ users' = InsertUser(req.email, req.username,
                                       bcryptHash(req.password))
                /\ inflight' = [inflight EXCEPT ![r] =
                      [pc |-> "reg_token", req |-> req,
                       taken |-> inflight[r].taken,
                       userId |-> Len(users) + 1]]
                /\ resp' = resp
    /\ UNCHANGED <<tokens, now, ticks, issued, logins, phase, attempt, dbConnected, adminFound,
                   exitCode, loggedOut,
                   granted, consumer>>

\* uuidv4, expiresAt, the await of INSERT INTO user_tokens, logUserActivity,
\* res.status(201)
RegisterInsertToken(r) ==
    /\ resp = None
    /\ inflight[r].pc = "reg_token"
    /\ LET req == inflight[r].req
           userId == inflight[r].userId
           token == uuidv4
       IN  /\ tokens' = tokens \cup
                 {[token |-> token, user_id |-> userId,
                   expires_at |-> ExpiresAt(now)]}
           /\ issued' = issued + 1
           /\ resp' = RegisterResponse(req, inflight[r].taken, 201,
                         [success |-> TRUE, token |-> token,
                          user |-> [id |-> userId, email |-> req.email,
                                    username |-> req.username]],
                         <<"select_users", "insert_user", "insert_token">>,
                         Activity(userId, "REGISTER"))
    /\ inflight' = [inflight EXCEPT ![r] = Idle]
    /\ UNCHANGED <<users, now, ticks, logins, phase, attempt, dbConnected, adminFound, exitCode,
                   loggedOut,
                   granted, consumer>>

(* -------------------------- POST /api/auth/login ------------------------ *)
\* UserNotFoundAnswer that tells the caller no such user exists
UserNotFoundAnswerLeaks == Err("User not found")

\* the 401 body when the SELECT finds no user
UserNotFoundAnswer == Err("Invalid credentials")

\* WrongPasswordAnswer that tells the caller the user exists
WrongPasswordAnswerLeaks == Err("Wrong password")

\* the 401 body when bcrypt.compare fails
WrongPasswordAnswer == Err("Invalid credentials")

\* PublicUser that returns the whole row
PublicUserWholeRow(u) == u

\* the user object login returns
PublicUser(u) == [id |-> u.id, email |-> u.email, username |-> u.username]

\* whether some user named by `identifier` has `password`
CredentialsCorrect(identifier, password) ==
    \E i \in SelectUsers(identifier, identifier) :
        bcryptCompare(password, users[i].password_hash)

\* validation, then the await of SELECT * FROM users WHERE email = ? OR
\* username = ? with [email, email]; users[0] is whichever matching row the
\* store returns first (the query has no ORDER BY)
LoginFind(identifier, password) ==
    /\ Accepting
    /\ LET req == [email |-> identifier, password |-> password]
           matched == SelectUsers(identifier, identifier)
           credOk == CredentialsCorrect(identifier, password)
       IN  IF identifier = Absent \/ password = Absent
           THEN /\ resp' = LoginResponse(req, 400,
                              Err("Email and password required"), <<>>,
                              NoActivity, {}, FALSE)
                /\ UNCHANGED <<inflight, logins>>
           ELSE IF matched = {}
           THEN /\ resp' = LoginResponse(req, 401, UserNotFoundAnswer,
                              <<"select_users">>, NoActivity, {}, credOk)
                /\ UNCHANGED <<inflight, logins>>
           ELSE /\ logins < MaxLogins
                /\ logins' = logins + 1
                /\ \E r \in Req, i \in matched :
                      /\ FreeSlot(r)
                      /\ inflight' = [inflight EXCEPT ![r] =
                            [pc |-> "login_issue", req |-> req,
                             user |-> users[i], matched |-> matched,
                             credOk |-> credOk]]
                /\ resp' = resp
    /\ UNCHANGED <<users, tokens, now, ticks, issued, phase, attempt,
                   dbConnected, adminFound, exitCode, loggedOut,
                   granted, consumer>>

\* the await of bcrypt.compare, then uuidv4, expiresAt, the await of INSERT
\* INTO user_tokens, logUserActivity, res.json
LoginIssue(r) ==
    /\ resp = None
    /\ inflight[r].pc = "login_issue"
    /\ LET req == inflight[r].req
           user == inflight[r].user
           token == uuidv4
       IN  IF ~bcryptCompare(req.password, user.password_hash)
           THEN /\ resp' = LoginResponse(req, 401, WrongPasswordAnswer,
                              <<"select_users">>, NoActivity,
                              inflight[r].matched, inflight[r].credOk)
                /\ UNCHANGED <<tokens, issued>>
           ELSE /\ tokens' = tokens \cup
                      {[token |-> token, user_id |-> user.id,
                        expires_at |-> ExpiresAt(now)]}
                /\ issued' = issued + 1
                /\ resp' = LoginResponse(req, 200,
                              [success |-> TRUE, token |-> token,
                               user |-> PublicUser(user)],
                              <<"select_users", "insert_token">>,
                              Activity(user.id, "LOGIN"),
                              inflight[r].matched, inflight[r].credOk)
    /\ inflight' = [inflight EXCEPT ![r] = Idle]
    /\ UNCHANGED <<users, now, ticks, logins, phase, attempt, dbConnected, adminFound, exitCode,
                   loggedOut,
                   granted, consumer>>

(* ----------------------------- authMiddleware --------------------------- *)
\* what authMiddleware and a protected route produce: `stage` is "auth" for a
\* result of the middleware and "handler" for one of the route's own code;
\* status 0 is the middleware's next() on /logout, whose handler then
\* suspends at its DELETE; `revoked` records whether a logout of this token
\* had already returned success when the middleware looked the token up,
\* `before` the tables as this step found them
AuthResponse(op, token, stage, status, body, queries, activity) ==
    [op |-> op, token |-> token, stage |-> stage, status |-> status,
     body |-> body, queries |-> queries, activity |-> activity,
     revoked |-> token \in loggedOut,
     before |-> [users |-> users, tokens |-> tokens]]

\* the tokens a client can present: none, or one handed out earlier
Presentable == {NoToken} \cup (1..issued)

\* AuthUser that reads the first row of users instead of the joined row
AuthUserFirstRow(row) == PublicUser(users[1])

\* the user object the middleware puts in req.user, from rows[0]
AuthUser(row) == PublicUser(users[row.user_id])

\* GET /api/auth/me and GET /api/auth/verify: authMiddleware (token check,
\* then the await of the token SELECT), then res.json in the same turn
AuthRoute(op, token) ==
    /\ Accepting
    /\ IF token = NoToken
       THEN resp' = AuthResponse(op, token, "auth", 401,
                       Err("No token provided"), <<>>, NoActivity)
       ELSE IF SelectValidToken(token) = {}
       THEN resp' = AuthResponse(op, token, "auth", 401,
                       Err("Invalid or expired token"), <<"select_token">>,
                       NoActivity)
       ELSE \E row \in SelectValidToken(token) :
               resp' = AuthResponse(op, token, "auth", 200,
                          [success |-> TRUE, user |-> AuthUser(row)],
                          <<"select_token">>, NoActivity)
    /\ UNCHANGED <<users, tokens, now, ticks, issued, logins, phase, attempt,
                   dbConnected, adminFound, exitCode, inflight, loggedOut,
                   granted, consumer>>

(* -------------------------- POST /api/auth/logout ----------------------- *)
\* authMiddleware of /logout; on success next() runs the handler up to the
\* await of its DELETE
LogoutAuth(token) ==
    /\ Accepting
    /\ IF token = NoToken
       THEN /\ resp' = AuthResponse("logout", token, "auth", 401,
                          Err("No token provided"), <<>>, NoActivity)
            /\ inflight' = inflight
       ELSE IF SelectValidToken(token) = {}
       THEN /\ resp' = AuthResponse("logout", token, "auth", 401,
                          Err("Invalid or expired token"),
                          <<"select_token">>, NoActivity)
            /\ inflight' = inflight
       ELSE \E r \in Req, row \in SelectValidToken(token) :
               /\ FreeSlot(r)
               /\ inflight' = [inflight EXCEPT ![r] =
                     [pc |-> "logout_delete", token |-> token,
                      user |-> AuthUser(row)]]
               /\ resp' = AuthResponse("logout", token, "auth", 0,
                             [next |-> TRUE], <<"select_token">>, NoActivity)
    /\ UNCHANGED <<users, tokens, now, ticks, issued, logins, phase, attempt,
                   dbConnected, adminFound, exitCode, loggedOut,
                   granted, consumer>>

\* the await of DELETE FROM user_tokens WHERE token = ?, logUserActivity,
\* res.json({success: true})
LogoutDelete(r) ==
    /\ resp = None
    /\ inflight[r].pc = "logout_delete"
    /\ tokens' = DeleteToken(inflight[r].token)
    /\ resp' = AuthResponse("logout", inflight[r].token, "handler", 200,
                  [success |-> TRUE],
                  <<"select_token", "delete_token">>,
                  Activity(inflight[r].user.id, "LOGOUT"))
    /\ inflight' = [inflight EXCEPT ![r] = Idle]
    /\ UNCHANGED <<users, now, ticks, issued, logins, phase, attempt, dbConnected, adminFound,
                   exitCode, loggedOut,
                   granted, consumer>>

(* ------------------------------ environment ----------------------------- *)
\* the client receives the response; from here on a logout that answered 200
\* "has returned success"
Deliver ==
    /\ resp # None
    /\ loggedOut' = IF resp.op = "logout" /\ resp.status = 200
                    THEN loggedOut \cup {resp.token}
                    ELSE loggedOut
    /\ granted' = IF resp.op \in {"login", "register"}
                      /\ resp.status \in {200, 201}
                  THEN granted \cup {[token |-> resp.body.token,
                                      user |-> resp.body.user]}
                  ELSE granted
    /\ resp' = None
    /\ UNCHANGED <<users, tokens, now, ticks, issued, logins, phase, attempt,
                   dbConnected, adminFound, exitCode, inflight, consumer>>

\* time passes (Date.now() of the process and NOW() of the store)
Tick ==
    /\ resp = None
    /\ ticks < MaxTicks
    /\ \E d \in TickSteps : now' = now + d
    /\ ticks' = ticks + 1
    /\ UNCHANGED <<users, tokens, issued, logins, phase, attempt, dbConnected, adminFound,
                   exitCode, inflight, resp, loggedOut,
                   granted, consumer>>

(* ----------------------------- store errors ----------------------------- *)
\* db.execute rejects (store unreachable, connection lost): the query has no
\* effect and the handler's catch answers 500

\* the SELECT of register throws
RegisterCheckThrows(email, username, password) ==
    /\ Accepting
    /\ ~FieldsMissing(email, username, password)
    /\ ~PasswordTooShort(password)
    /\ resp' = RegisterResponse([email |-> email, username |-> username,
                                 password |-> password],
                  DuplicateKey(email, username), 500,
                  Err("Registration failed"), <<"select_users">>, NoActivity)
    /\ UNCHANGED <<users, tokens, now, ticks, issued, logins, phase, attempt,
                   dbConnected, adminFound, exitCode, inflight, loggedOut,
                   granted, consumer>>

\* the INSERT INTO users of register throws
RegisterInsertUserThrows(r) ==
    /\ resp = None
    /\ inflight[r].pc = "reg_insert"
    /\ resp' = RegisterResponse(inflight[r].req, inflight[r].taken, 500,
                  Err("Registration failed"),
                  <<"select_users", "insert_user">>, NoActivity)
    /\ inflight' = [inflight EXCEPT ![r] = Idle]
    /\ UNCHANGED <<users, tokens, now, ticks, issued, logins, phase, attempt,
                   dbConnected, adminFound, exitCode, loggedOut,
                   granted, consumer>>

\* the INSERT INTO user_tokens of register throws: the user row stays
RegisterInsertTokenThrows(r) ==
    /\ resp = None
    /\ inflight[r].pc = "reg_token"
    /\ resp' = RegisterResponse(inflight[r].req, inflight[r].taken, 500,
                  Err("Registration failed"),
                  <<"select_users", "insert_user", "insert_token">>,
                  NoActivity)
    /\ inflight' = [inflight EXCEPT ![r] = Idle]
    /\ UNCHANGED <<users, tokens, now, ticks, issued, logins, phase, attempt,
                   dbConnected, adminFound, exitCode, loggedOut,
                   granted, consumer>>

\* the SELECT of login throws
LoginFindThrows(identifier, password) ==
    /\ Accepting
    /\ identifier # Absent /\ password # Absent
    /\ resp' = LoginResponse([email |-> identifier, password |-> password],
                  500, Err("Login failed"), <<"select_users">>, NoActivity,
                  SelectUsers(identifier, identifier),
                  CredentialsCorrect(identifier, password))
    /\ UNCHANGED <<users, tokens, now, ticks, issued, logins, phase, attempt,
                   dbConnected, adminFound, exitCode, inflight, loggedOut,
                   granted, consumer>>

\* the INSERT INTO user_tokens of login throws
LoginIssueThrows(r) ==
    /\ resp = None
    /\ inflight[r].pc = "login_issue"
    /\ bcryptCompare(inflight[r].req.password, inflight[r].user.password_hash)
    /\ resp' = LoginResponse(inflight[r].req, 500, Err("Login failed"),
                  <<"select_users", "insert_token">>, NoActivity,
                  inflight[r].matched, inflight[r].credOk)
    /\ inflight' = [inflight EXCEPT ![r] = Idle]
    /\ UNCHANGED <<users, tokens, now, ticks, issued, logins, phase, attempt,
                   dbConnected, adminFound, exitCode, loggedOut,
                   granted, consumer>>

\* the token SELECT of authMiddleware throws
AuthThrows(op, token) ==
    /\ Accepting
    /\ token # NoToken
    /\ resp' = AuthResponse(op, token, "auth", 500, Err("Auth error"),
                  <<"select_token">>, NoActivity)
    /\ UNCHANGED <<users, tokens, now, ticks, issued, logins, phase, attempt,
                   dbConnected, adminFound, exitCode, inflight, loggedOut,
                   granted, consumer>>

\* the DELETE of logout throws
LogoutDeleteThrows(r) ==
    /\ resp = None
    /\ inflight[r].pc = "logout_delete"
    /\ resp' = AuthResponse("logout", inflight[r].token, "handler", 500,
                  Err("Logout failed"), <<"select_token", "delete_token">>,
                  NoActivity)
    /\ inflight' = [inflight EXCEPT ![r] = Idle]
    /\ UNCHANGED <<users, tokens, now, ticks, issued, logins, phase, attempt,
                   dbConnected, adminFound, exitCode, loggedOut,
                   granted, consumer>>

(* --------------------------- specifications ----------------------------- *)
\* nothing is suspended: a client that waits for each answer before it sends
\* its next request
Quiet == \A r \in Req : inflight[r] = Idle

Fields == Idents \cup {Absent}
PasswordFields == Passwords \cup {Absent}

\* start(): waitForDatabase, ensureAdminUser, app.listen
Start ==
    \/ ConnectAttempt
    \/ WaitForDatabaseThrows
    \/ EnsureAdminSelect
    \/ EnsureAdminWrite

\* the process starts against a store that may fail the queries of
\* ensureAdminUser, and the admin then logs in
NextStart ==
    \/ Start
    \/ EnsureAdminThrows
    \/ \E i \in {AdminEmail, AdminUsername}, p \in {AdminPassword, "secret"} :
          LoginFind(i, p)
    \/ \E r \in Req : LoginIssue(r)
    \/ Deliver

SpecStart == Init /\ [][NextStart]_vars

\* clients register concurrently
NextRegister ==
    \/ Start
    \/ \E e \in Fields, u \in Fields, p \in {"secret", "abcde", Absent} :
          RegisterCheck(e, u, p)
    \/ \E r \in Req : RegisterInsertUser(r)
    \/ \E r \in Req : RegisterInsertToken(r)
    \/ Deliver

SpecRegister == Init /\ [][NextRegister]_vars

\* one client registers users and logs in, one request at a time
NextLogin ==
    \/ Start
    \/ Quiet /\ \E e \in Idents, u \in Idents, p \in {"secret", "admin123"} :
          RegisterCheck(e, u, p)
    \/ \E r \in Req : RegisterInsertUser(r)
    \/ \E r \in Req : RegisterInsertToken(r)
    \/ Quiet /\ \E i \in Fields, p \in {"secret", "admin123", Absent} :
          LoginFind(i, p)
    \/ \E r \in Req : LoginIssue(r)
    \/ Deliver

SpecLogin == Init /\ [][NextLogin]_vars

\* the same client against a store that may fail any query
NextFaulty ==
    \/ NextLogin
    \/ Quiet /\ \E e \in Idents, u \in Idents, p \in {"secret", "admin123"} :
          RegisterCheckThrows(e, u, p)
    \/ \E r \in Req : RegisterInsertUserThrows(r)
    \/ \E r \in Req : RegisterInsertTokenThrows(r)
    \/ Quiet /\ \E i \in Idents, p \in {"secret", "admin123"} :
          LoginFindThrows(i, p)
    \/ \E r \in Req : LoginIssueThrows(r)

SpecFaulty == Init /\ [][NextFaulty]_vars

\* the admin's sessions: concurrent logins, logouts and protected requests
\* while time passes
NextSessions ==
    \/ Start
    \/ \E p \in {AdminPassword, "secret"} : LoginFind(AdminEmail, p)
    \/ \E r \in Req : LoginIssue(r)
    \/ \E op \in {"me", "verify"}, t \in Presentable : AuthRoute(op, t)
    \/ \E t \in Presentable : LogoutAuth(t)
    \/ \E r \in Req : LogoutDelete(r)
    \/ Deliver
    \/ Tick

SpecSessions == Init /\ [][NextSessions]_vars

\* one client registers a user, logs in as that user or as the admin, uses
\* the protected routes and logs out, one request at a time, while time
\* passes
NextIdentity ==
    \/ Start
    \/ Quiet /\ RegisterCheck("a@x.com", "bob", "secret")
    \/ \E r \in Req : RegisterInsertUser(r)
    \/ \E r \in Req : RegisterInsertToken(r)
    \/ Quiet /\ \E c \in {<<"bob", "secret">>, <<AdminEmail, AdminPassword>>} :
          LoginFind(c[1], c[2])
    \/ \E r \in Req : LoginIssue(r)
    \/ Quiet /\ \E op \in {"me", "verify"}, t \in Presentable : AuthRoute(op, t)
    \/ Quiet /\ \E t \in Presentable : LogoutAuth(t)
    \/ \E r \in Req : LogoutDelete(r)
    \/ Deliver
    \/ Tick

SpecIdentity == Init /\ [][NextIdentity]_vars

\* the same client uses every route against a store that may fail any query
NextActivity ==
    \/ NextFaulty
    \/ Quiet /\ \E op \in {"me", "verify"}, t \in Presentable : AuthRoute(op, t)
    \/ Quiet /\ \E t \in Presentable : LogoutAuth(t)
    \/ \E r \in Req : LogoutDelete(r)
    \/ Quiet /\ \E op \in {"me", "verify", "logout"}, t \in Presentable :
          AuthThrows(op, t)
    \/ \E r \in Req : LogoutDeleteThrows(r)

SpecActivity == Init /\ [][NextActivity]_vars

(* --------------------------- the CDC consumer --------------------------- *)
\* number of messages the broker hands to eachMessage in one behaviour
MaxMessages == 3

KafkaAttempts == 60
Topic == "tidb-cdc"

\* JavaScript values, tagged with their typeof; a number is its decimal text
Undefined == [t |-> "undefined"]
JNull == [t |-> "null"]
Str(s) == [t |-> "string", v |-> s]
Num(s) == [t |-> "number", v |-> s]
Obj(fields) == [t |-> "object", v |-> fields]

\* ToBoolean
Truthy(x) ==
    ~ \/ x.t \in {"undefined", "null"}
      \/ x.t = "string" /\ x.v = ""
      \/ x.t = "number" /\ x.v = "0"
      \/ x.t = "boolean" /\ x.v = "false"

\* a || b
Or(a, b) == IF Truthy(a) THEN a ELSE b

\* x.f for x that is neither null nor undefined: a primitive has no own
\* property named type, table, database or data
Get(x, f) == IF x.t = "object" /\ f \in DOMAIN x.v THEN x.v[f] ELSE Undefined

\* texts a message value may hold
NotJson == "not json"
JsonNull == "null"
JsonNumber == "42"
JsonEmpty == "{}"
JsonChange ==
    "{\"type\":\"INSERT\",\"table\":\"users\",\"database\":\"helfy\",\"data\":{\"id\":1}}"
JsonTableOnly == "{\"table\":\"users\"}"
JsonFalsy == "{\"type\":\"\",\"table\":\"users\",\"data\":0}"

Payloads == {NotJson, JsonNull, JsonNumber, JsonEmpty, JsonChange,
             JsonTableOnly, JsonFalsy}

\* JSON.parse on Payloads: the decoded value, or ok = FALSE for a SyntaxError
JSONparse(text) ==
    CASE text = JsonNull -> [ok |-> TRUE, value |-> JNull]
      [] text = JsonNumber -> [ok |-> TRUE, value |-> Num("42")]
      [] text = JsonEmpty -> [ok |-> TRUE, value |-> Obj(<<>>)]
      [] text = JsonChange ->
            [ok |-> TRUE,
             value |-> Obj([type |-> Str("INSERT"), table |-> Str("users"),
                            database |-> Str("helfy"),
                            data |-> Obj([id |-> Num("1")])])]
      [] text = JsonTableOnly ->
            [ok |-> TRUE, value |-> Obj([table |-> Str("users")])]
      [] text = JsonFalsy ->
            [ok |-> TRUE,
             value |-> Obj([type |-> Str(""), table |-> Str("users"),
                            data |-> Num("0")])]
      [] OTHER -> [ok |-> FALSE]

\* message.value: a Buffer of text, or null (a tombstone)
MessageValues == {JNull} \cup {Str(p) : p \in Payloads}

\* what one call of processMessage does: the line it writes with
\* cdcLogger.info, the message it writes with logger.error, and whether an
\* exception leaves the function
Logged(entry) == [line |-> <<entry>>, error |-> <<>>, raised |-> FALSE]

\* the body of processMessage without its outer try/catch
Uncaught(msg) == [line |-> <<>>, error |-> <<>>, raised |-> TRUE]

\* the outer catch: logger.error('Error processing message:', err.message)
Caught(msg) == [line |-> <<>>, error |-> <<msg>>, raised |-> FALSE]

processMessage(message) ==
    IF message.value = JNull
    THEN Caught("Cannot read properties of null (reading 'toString')")
    ELSE LET value == message.value.v
             parsed == JSONparse(value)
             data == IF parsed.ok THEN parsed.value
                     ELSE Obj([raw |-> Str(value)])
         IN  IF data = JNull
             THEN Caught("Cannot read properties of null (reading 'type')")
             ELSE Logged([source |-> "tidb-cdc",
                          topic |-> message.topic,
                          partition |-> message.partition,
                          offset |-> message.offset,
                          operation |-> Or(Get(data, "type"), Str("UNKNOWN")),
                          table |-> Or(Get(data, "table"), Str("unknown")),
                          database |-> Or(Get(data, "database"), Str("helfy")),
                          data |-> Or(Get(data, "data"), data)])

\* one pass of the loop of waitForKafka: admin.connect / listTopics /
\* disconnect
KafkaAttempt ==
    /\ kPhase = "waiting"
    /\ kAttempt < KafkaAttempts
    /\ \E ok \in BOOLEAN :
          IF ok
          THEN /\ kPhase' = "connecting"
               /\ kAttempt' = 0  \* `i` ends with the call
          ELSE /\ kPhase' = kPhase
               /\ kAttempt' = kAttempt + 1
    /\ UNCHANGED <<api, kExit, consumed, cdcLog, errors>>

\* the loop ran out: throw new Error('Kafka connection failed'), which
\* main().catch turns into process.exit(1)
WaitForKafkaThrows ==
    /\ kPhase = "waiting"
    /\ kAttempt = KafkaAttempts
    /\ kPhase' = "exited"
    /\ kExit' = 1
    /\ UNCHANGED <<api, kAttempt, consumed, cdcLog, errors>>

\* consumer.connect, consumer.subscribe, consumer.run
ConsumerRun ==
    /\ kPhase = "connecting"
    /\ kPhase' = "running"
    /\ UNCHANGED <<api, kAttempt, kExit, consumed, cdcLog, errors>>

\* consumer.connect or consumer.subscribe rejects: main().catch
ConsumerRunThrows ==
    /\ kPhase = "connecting"
    /\ kPhase' = "exited"
    /\ kExit' = 1
    /\ UNCHANGED <<api, kAttempt, consumed, cdcLog, errors>>

\* eachMessage: the consumer hands over the next message of the partition;
\* an exception that leaves the handler stops the processing of the
\* partition at this offset
EachMessage(v) ==
    /\ kPhase = "running"
    /\ Len(consumed) < MaxMessages
    /\ LET message == [topic |-> Topic, partition |-> 0,
                       offset |-> Len(consumed), value |-> v]
           out == processMessage(message)
       IN  /\ consumed' = Append(consumed, message)
           /\ cdcLog' = cdcLog \o out.line
           /\ errors' = errors \o out.error
           /\ kPhase' = IF out.raised THEN "halted" ELSE kPhase
    /\ UNCHANGED <<api, kAttempt, kExit>>

\* SIGINT or SIGTERM: consumer.disconnect, process.exit(0)
Shutdown ==
    /\ kPhase \in {"waiting", "connecting", "running"}
    /\ kPhase' = "exited"
    /\ kExit' = 0
    /\ UNCHANGED <<api, kAttempt, consumed, cdcLog, errors>>

NextConsumer ==
    \/ KafkaAttempt
    \/ WaitForKafkaThrows
    \/ ConsumerRun
    \/ ConsumerRunThrows
    \/ \E v \in MessageValues : EachMessage(v)
    \/ Shutdown

SpecConsumer == Init /\ [][NextConsumer]_vars

\* the two readiness loops, each pass of which completes: the API's
\* waitForDatabase and the consumer's waitForKafka
NextReadiness ==
    \/ ConnectAttempt
    \/ WaitForDatabaseThrows
    \/ KafkaAttempt
    \/ WaitForKafkaThrows

SpecReadiness == Init /\ [][NextReadiness]_vars /\ WF_vars(NextReadiness)

(* ------------------------------- claims --------------------------------- *)
AuthOps == {"me", "verify", "logout"}

\* what authMiddleware decided: it let the request through
AuthPassed ==
    \/ resp.op \in {"me", "verify"} /\ resp.status = 200
    \/ resp.op = "logout" /\ resp.stage = "auth" /\ resp.status = 0

\* a register request with all fields present and a password of length >= 6
ValidRegister ==
    /\ resp.op = "register"
    /\ ~FieldsMissing(resp.req.email, resp.req.username, resp.req.password)
    /\ Len(resp.req.password) >= 6

\* C1: every register request with present fields and a password of length
\* >= 6 ends with 201 (having created its user row) or with 409, whatever
\* other register requests run at the same time, and no email and no username
\* is held by two user rows.
C1_RegisterEndsCreatedOrConflict ==
    /\ ValidRegister =>
          \/ /\ resp.status = 201
             /\ \E i \in DOMAIN users :
                   /\ users[i].id = resp.body.user.id
                   /\ users[i].email = resp.req.email
                   /\ users[i].username = resp.req.username
          \/ resp.status = 409
    /\ \A i, j \in DOMAIN users :
          (users[i].email = users[j].email
             \/ users[i].username = users[j].username) => i = j

\* C2: a login whose identifier is the email or the username of an existing
\* user and whose password is that user's password answers 200 with a token,
\* and the token row stored for it expires exactly 24 hours after issuance.
C2_CorrectLoginGetsToken ==
    (resp.op = "login" /\ resp.credOk) =>
        /\ resp.status = 200
        /\ \E row \in tokens :
              /\ row.token = resp.body.token
              /\ row.expires_at = now + 24 * 60 * 60 * 1000

\* C3: for a token present in the store, authMiddleware lets the request
\* through at every time strictly before the token's expiry and answers 401
\* at every time now >= expiry, now = expiry included.
C3_AuthenticateUntilExpiry ==
    \A row \in tokens :
        (resp.op \in AuthOps /\ resp.stage = "auth"
            /\ resp.token = row.token) =>
            /\ now < row.expires_at => AuthPassed
            /\ now >= row.expires_at => resp.status = 401

\* C3 witness: a protected request made at the very instant of expiry is
\* refused.
C3_RefusedAtExpiry ==
    \E row \in tokens :
        /\ resp.op = "me"
        /\ resp.token = row.token
        /\ now = row.expires_at
        /\ resp.status = 401

\* C4: once a logout of a token has returned success, authMiddleware answers
\* 401 to every later request (/me, /verify, /logout) that presents the token.
C4_LoggedOutTokenRefused ==
    (resp.op \in AuthOps /\ resp.stage = "auth" /\ resp.revoked) =>
        resp.status = 401

\* C4 witness: /me with a logged-out token is refused before the token could
\* have expired.
C4_RefusedAfterLogout ==
    /\ resp.op = "me"
    /\ resp.revoked
    /\ resp.status = 401
    /\ ticks = 0

\* C5: a register request whose password is shorter than 6 ends with 400 and
\* issues no store query, whatever its email and username.
C5_ShortPasswordRejectedBeforeStore ==
    (resp.op = "register" /\ Len(resp.req.password) < 6) =>
        resp.status = 400 /\ resp.queries = <<>>

\* C5 witness: email and username present, password of length 5, answer 400.
C5_ShortPasswordSeen ==
    /\ resp.op = "register"
    /\ resp.req.email \in Idents
    /\ resp.req.username \in Idents
    /\ Len(resp.req.password) = 5
    /\ resp.status = 400

\* C6: a login with identifier and password present that names no user, and
\* one that names users none of which has the password, get the same answer,
\* 401 {error: "Invalid credentials"}, and write nothing to the store.
C6_LoginFailuresIndistinguishable ==
    (/\ resp.op = "login"
     /\ resp.req.email # Absent
     /\ resp.req.password # Absent
     /\ ~resp.credOk) =>
        /\ resp.status = 401
        /\ resp.body = [error |-> "Invalid credentials"]
        /\ resp.queries = <<"select_users">>

\* C6 witness: a login that names an existing user with a wrong password.
C6_WrongPasswordSeen ==
    /\ resp.op = "login"
    /\ resp.matched # {}
    /\ ~resp.credOk
    /\ resp.status = 401

\* C7: no answer of login or register carries the password or its hash: the
\* body has only the fields error, success, token and user, and the user
\* object only id, email and username.
C7_NoSecretInResponse ==
    resp.op \in {"login", "register"} =>
        /\ DOMAIN resp.body \subseteq {"error", "success", "token", "user"}
        /\ "user" \in DOMAIN resp.body =>
              DOMAIN resp.body.user = {"id", "email", "username"}
        /\ "error" \in DOMAIN resp.body =>
              resp.body.error \notin Passwords

\* C7 witness: a successful login that returns a user object.
C7_LoginReturnsUser ==
    /\ resp.op = "login"
    /\ resp.status = 200
    /\ "user" \in DOMAIN resp.body

\* C8: a register request with present fields and a password of length >= 6
\* whose email or username a user row already holds ends with 409 after a
\* single read; a register request with a missing field ends with 400.
C8_TakenConflictMissingInvalid ==
    /\ (ValidRegister /\ resp.taken) =>
          resp.status = 409 /\ resp.queries = <<"select_users">>
    /\ (resp.op = "register"
          /\ FieldsMissing(resp.req.email, resp.req.username,
                           resp.req.password)) =>
          resp.status = 400

\* C8 witness: the username is taken, the email is not, and the answer is 409.
C8_UsernameTakenSeen ==
    /\ ValidRegister
    /\ resp.status = 409
    /\ \E i \in DOMAIN users : users[i].username = resp.req.username
    /\ \A i \in DOMAIN users : users[i].email # resp.req.email

\* C9: the listener is started only after a connection attempt succeeded, and
\* when all attempts failed the process has exited with a non-zero status
\* without listening.
C9_ListenOnlyAfterConnect ==
    /\ phase \in {"ensure_admin", "ensure_admin_write", "listening"} =>
          dbConnected
    /\ phase = "exited" =>
          exitCode # 0 /\ ~dbConnected /\ attempt = DbAttempts

\* C9 witness: every attempt failed and the process exited.
C9_ExitedAfterAllAttempts ==
    phase = "exited" /\ attempt = DbAttempts /\ exitCode = 1

\* C10: whenever the listener accepts traffic the store holds the admin user
\* admin@helfy.com / admin whose hash verifies admin123.
C10_AdminPresentWhileListening ==
    phase = "listening" =>
        \E i \in DOMAIN users :
            /\ users[i].email = "admin@helfy.com"
            /\ users[i].username = "admin"
            /\ bcryptCompare("admin123", users[i].password_hash)

(* C11 as stated: every login that does not end in 200 ends in 401.        *)
C11_EveryLoginFailureIs401 ==
    (resp.op = "login" /\ resp.status # 200) => resp.status = 401

(* C11: a login that does not end in 200 ends in 400 "Email and password   *)
(* required" without a query when the identifier or the password is        *)
(* missing; with both present it ends in 401 "Invalid credentials", or in  *)
(* 500 "Login failed" when a query of the store threw.                     *)
C11_LoginFailureStatuses ==
    (resp.op = "login" /\ resp.status # 200) =>
        IF resp.req.email = Absent \/ resp.req.password = Absent
        THEN /\ resp.status = 400
             /\ resp.body = Err("Email and password required")
             /\ resp.queries = <<>>
        ELSE \/ resp.status = 401 /\ resp.body = Err("Invalid credentials")
             \/ resp.status = 500 /\ resp.body = Err("Login failed")

\* a login without a password was answered 400
C11_MissingFieldSeen ==
    /\ resp.op = "login"
    /\ resp.status = 400
    /\ resp.req.email # Absent
    /\ resp.req.password = Absent

(* C12: whatever messages are consumed, processMessage lets no exception   *)
(* out of the handler and the consumer is never halted: each message handed *)
(* to eachMessage ends in one cdcLogger line or one logger.error line, also *)
(* a message with no value, non-JSON text or the JSON text null.            *)
C12_MalformedNeverHalts ==
    /\ kPhase # "halted"
    /\ \A v \in MessageValues :
          ~processMessage([topic |-> Topic, partition |-> 0,
                           offset |-> 0, value |-> v]).raised
    /\ Len(cdcLog) + Len(errors) = Len(consumed)

\* a message with no value, then the JSON text null, then non-JSON text were
\* consumed, and the consumer is still running and logged the third
C12_RunningAfterMalformed ==
    /\ kPhase = "running"
    /\ Len(consumed) = 3
    /\ consumed[1].value = JNull
    /\ consumed[2].value = Str(JsonNull)
    /\ consumed[3].value = Str(NotJson)
    /\ Len(errors) = 2
    /\ \E k \in DOMAIN cdcLog : cdcLog[k].offset = 2

(* C13 as stated: every consumed message is re-emitted as exactly one log  *)
(* line; for a value that parses as JSON the line carries operation = its   *)
(* type (UNKNOWN if absent), table = its table (unknown if absent) and      *)
(* data = its data field (the whole decoded value if absent); for a value   *)
(* that does not parse it carries data = {raw: <original string>}.          *)
C13_EveryMessageOneLine ==
    /\ Len(cdcLog) = Len(consumed)
    /\ \A i \in DOMAIN consumed :
          (i \in DOMAIN cdcLog /\ consumed[i].value # JNull) =>
              LET text == consumed[i].value.v
                  parsed == JSONparse(text)
                  line == cdcLog[i]
                  Field(f, default) ==
                      IF parsed.value.t = "object"
                         /\ f \in DOMAIN parsed.value.v
                      THEN parsed.value.v[f]
                      ELSE default
              IN  IF parsed.ok
                  THEN /\ line.operation = Field("type", Str("UNKNOWN"))
                       /\ line.table = Field("table", Str("unknown"))
                       /\ line.data = Field("data", parsed.value)
                  ELSE line.data = Obj([raw |-> Str(text)])

(* C14 as stated: of two logout requests carrying the same token at most   *)
(* one returns success, also when the two run concurrently.                *)
C14_AtMostOneLogoutSucceeds ==
    ~(resp.op = "logout" /\ resp.status = 200 /\ resp.token \in loggedOut)

(* C14: a logout whose token lookup runs after the token's row was deleted *)
(* fails with 401 "Invalid or expired token", and once a logout has         *)
(* answered 200 the store holds no row of its token. (Two logouts whose     *)
(* lookups both run before the first DELETE both answer 200.)               *)
C14_LogoutAfterDeleteRefused ==
    /\ (/\ resp.op = "logout"
        /\ resp.stage = "auth"
        /\ resp.token # NoToken
        /\ \A row \in tokens : row.token # resp.token)
       => (resp.status = 401 /\ resp.body = Err("Invalid or expired token"))
    /\ (resp.op = "logout" /\ resp.status = 200)
       => \A row \in tokens : row.token # resp.token

\* the second of two logouts in sequence is refused while another token of
\* the user is still valid
C14_SecondLogoutRefused ==
    /\ resp.op = "logout"
    /\ resp.stage = "auth"
    /\ resp.status = 401
    /\ resp.token \in loggedOut
    /\ tokens # {}
    /\ ticks = 0

(* C15: a logout that answers 200 removes the row of the presented token   *)
(* and nothing else: every other row of user_tokens, also of the same user, *)
(* and the users table are as before; and after a logout a token that still *)
(* has its row and is unexpired is accepted by authMiddleware.              *)
C15_LogoutRemovesOnlyItsToken ==
    /\ (resp.op = "logout" /\ resp.stage = "handler" /\ resp.status = 200)
       => /\ tokens = {row \in resp.before.tokens : row.token # resp.token}
          /\ users = resp.before.users
    /\ (/\ resp.op \in AuthOps
        /\ resp.stage = "auth"
        /\ loggedOut # {}
        /\ \E row \in tokens : row.token = resp.token /\ now < row.expires_at)
       => resp.status \in {0, 200}

\* the user held two tokens, logged one out, and the other is still stored
C15_OtherTokenKept ==
    /\ resp.op = "logout"
    /\ resp.stage = "handler"
    /\ resp.status = 200
    /\ Cardinality(resp.before.tokens) = 2
    /\ \E row \in tokens, gone \in resp.before.tokens :
          /\ gone.token = resp.token
          /\ row.token # resp.token
          /\ row.user_id = gone.user_id

(* C16: authMiddleware lets a request of /me, /verify or /logout through   *)
(* only when the presented token was handed out by an earlier login (200)   *)
(* or register (201), its row is still in user_tokens and is unexpired; the *)
(* user /me and /verify return is the user that login or register returned  *)
(* with the token; a request with no token gets 401 without a query.        *)
C16_ProtectedRouteNeedsValidToken ==
    /\ (resp.op \in AuthOps /\ resp.stage = "auth" /\ resp.status \in {0, 200})
       => \E g \in granted :
             /\ g.token = resp.token
             /\ resp.token \notin loggedOut
             /\ \E row \in tokens : /\ row.token = resp.token
                                    /\ row.user_id = g.user.id
                                    /\ now < row.expires_at
             /\ resp.status = 200 => resp.body.user = g.user
    /\ (resp.op = "logout" /\ resp.stage = "handler" /\ resp.status = 200)
       => \E g \in granted : g.token = resp.token
    /\ (resp.op \in AuthOps /\ resp.token = NoToken)
       => (resp.status = 401 /\ resp.queries = <<>>)

\* while the admin holds a token too, /me with the token of the registered
\* user returns that user
C16_RegisteredUserSeen ==
    /\ resp.op = "me"
    /\ resp.status = 200
    /\ resp.body.user.username = "bob"
    /\ \E g \in granted : g.user.username = AdminUsername

(* C17 as stated: in every reachable store state an identifier matches at  *)
(* most one user by (email = identifier OR username = identifier).          *)
C17_IdentifierMatchesAtMostOneUser ==
    \A identifier \in Idents \cup {AdminEmail, AdminUsername} :
        Cardinality(SelectUsers(identifier, identifier)) <= 1

(* C18: a login that answers 200 emits one LOGIN record, a register that   *)
(* answers 201 one REGISTER record and a logout that answers 200 one LOGOUT *)
(* record, each with the id of the user the response or the token belongs   *)
(* to; every other response of login, register, logout, /me and /verify     *)
(* comes with no activity record.                                           *)
C18_OneActivityPerSuccess ==
    /\ resp.op = "login" =>
          resp.activity = IF resp.status = 200
                          THEN [userId |-> resp.body.user.id, action |-> "LOGIN"]
                          ELSE NoActivity
    /\ resp.op = "register" =>
          resp.activity = IF resp.status = 201
                          THEN [userId |-> resp.body.user.id,
                                action |-> "REGISTER"]
                          ELSE NoActivity
    /\ resp.op = "logout" =>
          IF resp.status = 200
          THEN \E g \in granted :
                  /\ g.token = resp.token
                  /\ resp.activity = [userId |-> g.user.id, action |-> "LOGOUT"]
          ELSE resp.activity = NoActivity
    /\ resp.op \in {"me", "verify"} => resp.activity = NoActivity

\* a logout of a registered user's token answered 200 and logged that user
C18_LogoutLogged ==
    /\ resp.op = "logout"
    /\ resp.status = 200
    /\ resp.activity.action = "LOGOUT"
    /\ resp.activity.userId > 1

(* C19: waitForDatabase fails at most 30 times and waitForKafka at most 60 *)
(* times; each leaves its loop at its first successful attempt and makes no *)
(* attempt after it, each raises its error only when all its attempts have  *)
(* failed, and each loop comes to an end.                                   *)
C19_ReadinessLoopsTerminate ==
    /\ [](/\ attempt <= DbAttempts
          /\ kAttempt <= KafkaAttempts
          /\ dbConnected => phase # "connecting"
          /\ phase = "exited" => (attempt = DbAttempts /\ ~dbConnected)
          /\ kPhase = "exited" => kAttempt = KafkaAttempts
          /\ (phase = "connecting" /\ attempt = DbAttempts)
                => ~ENABLED ConnectAttempt
          /\ (kPhase = "waiting" /\ kAttempt = KafkaAttempts)
                => ~ENABLED KafkaAttempt)
    /\ <>(phase # "connecting")
    /\ <>(kPhase # "waiting")

\* waitForKafka raised after 60 failures while waitForDatabase returned after
\* a success
C19_OneRaisedOneReturned ==
    /\ kPhase = "exited"
    /\ kExit = 1
    /\ kAttempt = KafkaAttempts
    /\ dbConnected
    /\ phase = "ensure_admin"

(* C20 as stated: a register request that ends with a status other than    *)
(* 201 has created no user row. The client sends one request at a time, so  *)
(* a row that holds the request's email and username, neither of which was  *)
(* in the table when the request arrived, was created by the request.       *)
C20_FailedRegisterCreatesNoUser ==
    (resp.op = "register" /\ resp.status # 201 /\ ~resp.taken) =>
        ~ \E i \in DOMAIN users : /\ users[i].email = resp.req.email
                                  /\ users[i].username = resp.req.username

====
